---- MODULE Spec2Model ----
(***************************************************************************)
(* Model of the bounded, memoized, cancellable nimber solver               *)
(* (src/src/lib.rs, src/src/entry.rs) together with the Kayles game of     *)
(* src/src/kayles.rs.  One worker runs the recursion of                    *)
(* get_bounded_nimber_by_parts / get_bounded_nimber_of_part /              *)
(* try_rule_out_nimber on an explicit call stack; another thread may       *)
(* store to cancel_flag between any two steps of the worker.               *)
(***************************************************************************)
EXTENDS Integers, Sequences, FiniteSets, TLC

VARIABLES
  game,         \* the Impartial implementation the Evaluator is instantiated with
  hasher,       \* the keying DefaultHasher gives the positions
  cache,        \* Evaluator.cache: position -> Entry
  cancel_flag,  \* Evaluator.cancel_flag
  stack,        \* the worker's call stack
  ret,          \* the value the last returned frame handed to its caller
  api,          \* the entry point called last and its arguments
  result,       \* what that call returned
  cancelSeen,   \* history: "clear" while the flag was never set during the current
                \* call, "set" once it was, "observed" once the worker loaded it set
  startState,   \* history: "fresh" when the call started on an empty cache, else
                \* the variant of its last part's entry at that moment
  unit          \* a helper function run on its own: its argument and its result

vars == <<game, hasher, cache, cancel_flag, stack, ret, api, result, cancelSeen, startState,
          unit>>

(***************************************************************************)
(* Bounds of the model.                                                    *)
(***************************************************************************)
\* largest position (heap size) handed to the solver
MaxHeap == 3
\* longest sequence of parts handed to the *_by_parts entry points
MaxParts == 2
\* largest finite bound handed to the bounded entry points
MaxBound == 2
\* longest sequence that follows a pair of equal parts
MaxRest == 2
\* longest vector handed to remove_pairs on its own
MaxVec == 5
\* most moves, and most parts of a move, in a move list canonicalised on its own
MaxMoves == 2
MaxMoveLen == 2
\* largest nimber handed to mark_impossible on its own
MaxMark == 7

\* usize::MAX, at the width of the model's integers
UsizeMax == 2147483647

Pos == 0..MaxHeap

(***************************************************************************)
(* Option<T>                                                               *)
(***************************************************************************)
None == [some |-> FALSE, val |-> 0]
Some(v) == [some |-> TRUE, val |-> v]

(***************************************************************************)
(* Bitwise operators on usize.                                             *)
(***************************************************************************)
RECURSIVE Xor(_, _)
Xor(a, b) ==
  IF a = 0 THEN b
  ELSE IF b = 0 THEN a
  ELSE (((a % 2) + (b % 2)) % 2) + (2 * Xor(a \div 2, b \div 2))

RECURSIVE BitOr(_, _)
BitOr(a, b) ==
  IF a = 0 THEN b
  ELSE IF b = 0 THEN a
  ELSE (IF (a % 2) = 1 \/ (b % 2) = 1 THEN 1 ELSE 0) + (2 * BitOr(a \div 2, b \div 2))

Min(a, b) == IF a < b THEN a ELSE b

(***************************************************************************)
(* The games handed to the solver (implementations of Impartial).          *)
(*   "kayles": src/src/kayles.rs                                           *)
(*   "nim":    one heap, a move takes any positive number of objects;      *)
(*             get_max_nimber keeps the trait's default (None)             *)
(*   "lasker": as nim, and a move may instead split the heap in two;       *)
(*             get_max_nimber is Some(heap + 1)                            *)
(*   "oneall": one heap, a move takes one object or all of them; its       *)
(*             Grundy values are 0, 1, 2, 1, 2, ... and get_max_nimber     *)
(*             publishes them                                              *)
(***************************************************************************)
Games == {"kayles", "nim", "lasker", "oneall"}

MAX_REMOVE == 2

RECURSIVE Concat(_)
Concat(ss) == IF ss = <<>> THEN <<>> ELSE Head(ss) \o Concat(Tail(ss))

\* kayles.rs, first loop: for i in 1..min(kayles, MAX_REMOVE)  (end exclusive)
KaylesRemovals(n) ==
  [i \in 1..(Min(n, MAX_REMOVE) - 1) |-> <<n - i>>]

\* kayles.rs, second loop: for i in 1..=min(kayles.saturating_sub(2), MAX_REMOVE),
\* for j in 1..=(kayles - i) / 2
KaylesSplits(n) ==
  Concat([i \in 1..Min(IF n >= 2 THEN n - 2 ELSE 0, MAX_REMOVE) |->
            [j \in 1..((n - i) \div 2) |-> <<j, n - i - j>>]])

KaylesSplitMoves(n) == KaylesRemovals(n) \o KaylesSplits(n)

NimSplitMoves(n) == [k \in 1..n |-> <<k - 1>>]

LaskerSplitMoves(n) == NimSplitMoves(n) \o [j \in 1..(n \div 2) |-> <<j, n - j>>]

OneAllSplitMoves(n) == IF n = 0 THEN <<>> ELSE <<<<n - 1>>, <<0>>>>

get_split_moves(gm, p) ==
  IF gm = "kayles" THEN KaylesSplitMoves(p)
  ELSE IF gm = "nim" THEN NimSplitMoves(p)
  ELSE IF gm = "lasker" THEN LaskerSplitMoves(p)
  ELSE OneAllSplitMoves(p)

get_max_nimber(gm, p) ==
  IF gm = "kayles" THEN Some(p)
  ELSE IF gm = "nim" THEN None
  ELSE IF gm = "lasker" THEN Some(p + 1)
  ELSE Some(IF p = 0 THEN 0 ELSE 2 - (p % 2))

(***************************************************************************)
(* Hashing: DefaultHasher is a fixed but arbitrary keying of positions.    *)
(* Two keyings are explored (hasher = 0: ascending, 1: descending).        *)
(***************************************************************************)
Hashers == {0, 1}

HashBase == MaxHeap + 3

HashG(h, p) == IF h = 0 THEN p + 1 ELSE MaxHeap + 1 - p

RECURSIVE HashVec(_, _)
HashVec(h, m) ==
  IF m = <<>> THEN 0 ELSE HashG(h, Head(m)) + (HashBase * HashVec(h, Tail(m)))

\* Vec::sort_by_cached_key: a stable sort by key[i], the key of s[i]
SortByKey(s, key) ==
  LET n == Len(s)
      rank(i) == Cardinality({j \in 1..n :
                     key[j] < key[i] \/ (key[j] = key[i] /\ j < i)}) + 1
  IN [r \in 1..n |-> s[CHOOSE i \in 1..n : rank(i) = r]]

\* Vec::dedup: drops every element equal to its predecessor
RECURSIVE Dedup(_)
Dedup(s) ==
  IF Len(s) <= 1 THEN s
  ELSE LET front == Dedup(SubSeq(s, 1, Len(s) - 1))
       IN IF s[Len(s)] = s[Len(s) - 1] THEN front ELSE Append(front, s[Len(s)])

Swap(s, i, j) == [s EXCEPT ![i] = s[j], ![j] = s[i]]

\* the read/write scan of remove_pairs; read and write are the 0-based indices
RECURSIVE RemovePairsScan(_, _, _)
RemovePairsScan(vec, read, write) ==
  IF read + 1 < Len(vec)
  THEN IF vec[read + 1] = vec[read + 2]
       THEN RemovePairsScan(vec, read + 2, write)
       ELSE RemovePairsScan(Swap(vec, read + 1, write + 1), read + 1, write + 1)
  ELSE IF read < Len(vec)
       THEN SubSeq(Swap(vec, read + 1, write + 1), 1, write + 1)
       ELSE SubSeq(vec, 1, write)

\* faulty variant: the vector is scanned without being sorted first
remove_pairs_Unsorted(h, vec) == RemovePairsScan(vec, 0, 0)

remove_pairs(h, vec) ==
  RemovePairsScan(SortByKey(vec, [i \in 1..Len(vec) |-> HashG(h, vec[i])]), 0, 0)

\* what destub makes of the moves get_split_moves returned: sorted by hash,
\* deduplicated, then the pairs of every move removed
CanonicalMoves(h, moves) ==
  LET sorted == SortByKey(moves, [i \in 1..Len(moves) |-> HashVec(h, moves[i])])
      deduped == Dedup(sorted)
  IN [i \in 1..Len(deduped) |-> remove_pairs(h, deduped[i])]

\* the moves destub stores for position p of game gm
DestubMoves(gm, h, p) == CanonicalMoves(h, get_split_moves(gm, p))

(***************************************************************************)
(* Entry (src/src/entry.rs).  impossible_nimbers is the SortedSet, kept    *)
(* as an ascending sequence without repetitions.  The fields of a variant  *)
(* the entry is not in are held at their empty values.                     *)
(***************************************************************************)
EntryNew(max_nimber) ==
  [data |-> "Stub", unprocessed_split_moves |-> <<>>, impossible_nimbers |-> <<>>,
   nimber |-> 0, max_nimber |-> max_nimber]

ProcessingDataNew(e, moves) ==
  [e EXCEPT !.data = "Processing", !.unprocessed_split_moves = moves,
            !.impossible_nimbers = <<>>, !.nimber = 0]

EntryDone(e, nimber) ==
  [e EXCEPT !.data = "Done", !.unprocessed_split_moves = <<>>,
            !.impossible_nimbers = <<>>, !.nimber = nimber]

is_stub(e) == e.data = "Stub"

\* faulty variant: the nimber field of an entry that is not a Stub is handed out
get_nimber_NotStub(e) == IF e.data # "Stub" THEN Some(e.nimber) ELSE None

get_nimber(e) == IF e.data = "Done" THEN Some(e.nimber) ELSE None

\* faulty variant: the length is returned without looking for a gap
SmallestPossibleLen(imp) == Len(imp)

\* ProcessingData::get_smallest_possible_nimber: the first 0-based index whose
\* element differs from it, or the length
SmallestPossible(imp) ==
  LET len == Len(imp)
      diff == {a \in 0..(len - 1) : imp[a + 1] # a}
  IN IF diff = {} THEN len ELSE CHOOSE a \in diff : \A b \in diff : a <= b

get_smallest_possible_nimber(e) ==
  IF e.data = "Processing" THEN Some(SmallestPossible(e.impossible_nimbers)) ELSE None

\* SortedSet::find_or_push
FindOrPush(imp, n) ==
  IF \E i \in 1..Len(imp) : imp[i] = n THEN imp
  ELSE LET k == Cardinality({i \in 1..Len(imp) : imp[i] < n})
       IN SubSeq(imp, 1, k) \o <<n>> \o SubSeq(imp, k + 1, Len(imp))

\* faulty variant: the nimber of the probed move is not recorded
mark_impossible_Forget(e, n) == e

mark_impossible(e, n) ==
  IF e.data = "Processing"
  THEN [e EXCEPT !.impossible_nimbers = FindOrPush(e.impossible_nimbers, n)]
  ELSE e

\* Vec::pop on unprocessed_split_moves: the entry after the pop
PopRest(e) ==
  IF e.data = "Processing" /\ e.unprocessed_split_moves # <<>>
  THEN [e EXCEPT !.unprocessed_split_moves =
                    SubSeq(e.unprocessed_split_moves, 1, Len(e.unprocessed_split_moves) - 1)]
  ELSE e

\* Vec::pop on unprocessed_split_moves: the move popped, if any
PopMove(e) ==
  IF e.data = "Processing" /\ e.unprocessed_split_moves # <<>>
  THEN Some(e.unprocessed_split_moves[Len(e.unprocessed_split_moves)])
  ELSE None

append_unprocessed_moves(e, other) ==
  IF e.data = "Processing"
  THEN [e EXCEPT !.unprocessed_split_moves = e.unprocessed_split_moves \o other]
  ELSE e

(***************************************************************************)
(* The worker's call stack.  A frame is one activation of                  *)
(* get_bounded_nimber_by_parts ("by_parts"), get_bounded_nimber_of_part    *)
(* ("of_part") or try_rule_out_nimber ("try_rule_out"); the top of the     *)
(* stack is its last element.                                              *)
(***************************************************************************)
Frame(fn, pc, parts, part, bound) ==
  [fn |-> fn, pc |-> pc, parts |-> parts, part |-> part, bound |-> bound,
   idx |-> 1, modifier |-> 0, nimber |-> 0,
   still_unprocessed |-> <<>>, ruled_out |-> FALSE]

Top == stack[Len(stack)]

Running == stack # <<>>

At(fn, pc) == Running /\ Top.fn = fn /\ Top.pc = pc

SetTop(f) == [stack EXCEPT ![Len(stack)] = f]

Push(f, callee) == Append(SetTop(f), callee)

Pop == SubSeq(stack, 1, Len(stack) - 1)

\* the top frame returns v to its caller; the outermost frame returns to the API
Return(v) ==
  /\ stack' = Pop
  /\ ret' = IF Len(stack) = 1 THEN None ELSE v
  /\ result' = IF Len(stack) = 1 THEN v ELSE result

Fixed == UNCHANGED <<game, hasher, api, startState, unit>>

(***************************************************************************)
(* Evaluator (src/src/lib.rs).                                             *)
(***************************************************************************)
\* no helper function is run on its own
NoUnit ==
  [fn |-> "none", vec |-> <<>>, out |-> <<>>, moves |-> <<>>, entry |-> EntryNew(None),
   applied |-> FALSE]

\* Evaluator::new(), no call made yet
Idle ==
  /\ cache = [p \in {} |-> EntryNew(None)]
  /\ cancel_flag = FALSE
  /\ stack = <<>>
  /\ ret = None
  /\ api = [op |-> "none", parts |-> <<>>, bound |-> 0]
  /\ result = None
  /\ cancelSeen = "clear"
  /\ startState = "fresh"

Init ==
  /\ game \in Games
  /\ hasher \in Hashers
  /\ Idle
  /\ unit = NoUnit

PartsSeqs == UNION {[1..n -> Pos] : n \in 0..MaxParts}

Bounds == 0..MaxBound

\* every entry point ends in get_bounded_nimber_by_parts(parts, bound)
StartCall(op, parts, bound) ==
  /\ ~Running
  /\ stack' = <<Frame("by_parts", "loop", parts, 0, bound)>>
  /\ api' = [op |-> op, parts |-> parts, bound |-> bound]
  /\ result' = None
  /\ ret' = None
  /\ cancelSeen' = IF cancel_flag THEN "set" ELSE "clear"
  /\ startState' = IF DOMAIN cache = {} THEN "fresh"
                   ELSE IF parts = <<>> \/ parts[Len(parts)] \notin DOMAIN cache THEN "Absent"
                   ELSE cache[parts[Len(parts)]].data
  /\ UNCHANGED <<game, hasher, cache, cancel_flag, unit>>

Call_get_nimber ==
  \E g \in Pos : StartCall("get_nimber", <<g>>, UsizeMax)

Call_get_bounded_nimber ==
  \E g \in Pos, b \in Bounds : StartCall("get_bounded_nimber", <<g>>, b)

Call_get_nimber_by_parts ==
  \E parts \in PartsSeqs : StartCall("get_nimber_by_parts", parts, UsizeMax)

Call_get_bounded_nimber_by_parts ==
  \E parts \in PartsSeqs, b \in Bounds :
     StartCall("get_bounded_nimber_by_parts", parts, b)

RestSeqs == UNION {[1..n -> Pos] : n \in 0..MaxRest}

\* get_nimber_by_parts on a sequence that starts with two equal parts
Call_get_nimber_by_parts_paired ==
  \E a \in Pos, rest \in RestSeqs :
     StartCall("get_nimber_by_parts", <<a, a>> \o rest, UsizeMax)

stop ==
  /\ cancel_flag' = TRUE
  /\ cancelSeen' = IF Running /\ cancelSeen = "clear" THEN "set" ELSE cancelSeen
  /\ UNCHANGED <<game, hasher, cache, stack, ret, api, result, startState, unit>>

resume ==
  /\ cancel_flag' = FALSE
  /\ UNCHANGED <<game, hasher, cache, stack, ret, api, result, cancelSeen, startState, unit>>

\* faulty variant: the last part is solved under the bound of the sum
AdjustedBoundPlain(bound, modifier) == bound

\* the bound handed to the last part: bound | modifier
AdjustedBound(bound, modifier) == BitOr(bound, modifier)

\* faulty variant: the parts are combined with | instead of ^
SumNimberOr(modifier, n) == BitOr(modifier, n)

\* the value of the sum: modifier ^ nimber of the last part
SumNimber(modifier, n) == Xor(modifier, n)

\* get_bounded_nimber_by_parts: the empty sum, or the call for the next part
ByPartsLoop ==
  /\ At("by_parts", "loop")
  /\ LET f == Top IN
       IF f.parts = <<>>
       THEN Return(Some(0))
       ELSE /\ stack' =
                 IF f.idx < Len(f.parts)
                 THEN Push([f EXCEPT !.pc = "wait_part"],
                           Frame("of_part", "start", <<>>, f.parts[f.idx], UsizeMax))
                 ELSE Push([f EXCEPT !.pc = "wait_last"],
                           Frame("of_part", "start", <<>>, f.parts[Len(f.parts)],
                                 AdjustedBound(f.bound, f.modifier)))
            /\ UNCHANGED <<ret, result>>
  /\ UNCHANGED <<cache, cancel_flag>>
  /\ UNCHANGED cancelSeen
  /\ Fixed

\* faulty variant: modifier = ... in place of modifier ^= ...
ByPartsAfterPartAssign ==
  /\ At("by_parts", "wait_part")
  /\ LET f == Top IN
       IF ~ret.some
       THEN Return(None)
       ELSE /\ stack' = SetTop([f EXCEPT !.modifier = ret.val,
                                         !.idx = f.idx + 1, !.pc = "loop"])
            /\ ret' = None
            /\ UNCHANGED result
  /\ UNCHANGED <<cache, cancel_flag>>
  /\ UNCHANGED cancelSeen
  /\ Fixed

\* modifier ^= get_bounded_nimber_of_part(part, usize::MAX)?
ByPartsAfterPart ==
  /\ At("by_parts", "wait_part")
  /\ LET f == Top IN
       IF ~ret.some
       THEN Return(None)
       ELSE /\ stack' = SetTop([f EXCEPT !.modifier = Xor(f.modifier, ret.val),
                                         !.idx = f.idx + 1, !.pc = "loop"])
            /\ ret' = None
            /\ UNCHANGED result
  /\ UNCHANGED <<cache, cancel_flag>>
  /\ UNCHANGED cancelSeen
  /\ Fixed

\* Some(modifier ^ get_bounded_nimber_of_part(last, bound | modifier)?)
ByPartsAfterLast ==
  /\ At("by_parts", "wait_last")
  /\ LET f == Top IN
       IF ~ret.some THEN Return(None) ELSE Return(Some(SumNimber(f.modifier, ret.val)))
  /\ UNCHANGED <<cache, cancel_flag>>
  /\ UNCHANGED cancelSeen
  /\ Fixed

\* faulty variant: the entry is inserted without the contains_key test
EnsureEntryAlways(c, gm, part) ==
  [q \in DOMAIN c \cup {part} |->
     IF q = part THEN EntryNew(get_max_nimber(gm, part)) ELSE c[q]]

\* if !cache.contains_key(part) { cache.insert(part, Entry::new(..)) }
EnsureEntry(c, gm, part) ==
  IF part \in DOMAIN c THEN c ELSE c @@ (part :> EntryNew(get_max_nimber(gm, part)))

\* get_bounded_nimber_of_part up to the return of a Done entry's nimber
OfPartStart ==
  /\ At("of_part", "start")
  /\ LET f == Top
         c == EnsureEntry(cache, game, f.part)
         n == get_nimber(c[f.part])
     IN /\ cache' = c
        /\ IF n.some
           THEN Return(n)
           ELSE /\ stack' = SetTop([f EXCEPT !.pc = "destub"])
                /\ UNCHANGED <<ret, result>>
  /\ UNCHANGED cancel_flag
  /\ UNCHANGED cancelSeen
  /\ Fixed

\* DestubMoves, tabulated for every game, keying and position
DestubTable == [gm \in Games, h \in Hashers, p \in Pos |-> DestubMoves(gm, h, p)]

\* destub: a Stub becomes Processing with its canonical moves
destub(c, gm, h, part) ==
  IF is_stub(c[part])
  THEN [c EXCEPT ![part] = ProcessingDataNew(@, DestubTable[gm, h, part])]
  ELSE c

OfPartDestub ==
  /\ At("of_part", "destub")
  /\ cache' = destub(cache, game, hasher, Top.part)
  /\ stack' = SetTop([Top EXCEPT !.pc = "loop"])
  /\ UNCHANGED <<cancel_flag, ret, result>>
  /\ UNCHANGED cancelSeen
  /\ Fixed

\* faulty variant: the comparison with the bound is off by one
ExceedsBoundOrEqual(nimber, bound) == nimber >= bound

\* if nimber > bound { return None }
ExceedsBound(nimber, bound) == nimber > bound

\* the head of the loop of get_bounded_nimber_of_part
OfPartLoop ==
  /\ At("of_part", "loop")
  /\ LET f == Top
         n == get_smallest_possible_nimber(cache[f.part]).val
     IN IF cancel_flag
        THEN Return(None)
        ELSE IF ExceedsBound(n, f.bound)
        THEN Return(None)
        ELSE /\ stack' = Push([f EXCEPT !.pc = "wait_try", !.nimber = n],
                              [Frame("try_rule_out", "start", <<>>, f.part, 0)
                                 EXCEPT !.nimber = n])
             /\ UNCHANGED <<ret, result>>
  /\ UNCHANGED <<cache, cancel_flag>>
  /\ cancelSeen' = IF cancel_flag THEN "observed" ELSE cancelSeen
  /\ Fixed

\* if !try_rule_out_nimber(part, nimber)? { entry.data = Done { nimber }; return Some(nimber) }
OfPartAfterTry ==
  /\ At("of_part", "wait_try")
  /\ LET f == Top IN
       IF ~ret.some
       THEN Return(None) /\ UNCHANGED cache
       ELSE IF ret.val = 1
       THEN /\ stack' = SetTop([f EXCEPT !.pc = "loop"])
            /\ ret' = None
            /\ UNCHANGED <<cache, result>>
       ELSE /\ cache' = [cache EXCEPT ![f.part] = EntryDone(@, f.nimber)]
            /\ Return(Some(f.nimber))
  /\ UNCHANGED cancel_flag
  /\ UNCHANGED cancelSeen
  /\ Fixed

\* Option<bool> of try_rule_out_nimber, as Some(1) / Some(0)
Bool(b) == IF b THEN 1 ELSE 0

\* faulty variant: the max_nimber of the entry is not consulted
TryStartNoShortcut ==
  /\ At("try_rule_out", "start")
  /\ stack' = SetTop([Top EXCEPT !.pc = "pop"])
  /\ UNCHANGED <<ret, result, cache, cancel_flag, cancelSeen>>
  /\ Fixed

\* the max_nimber shortcut of try_rule_out_nimber
TryStart ==
  /\ At("try_rule_out", "start")
  /\ LET f == Top
         max_nimber == cache[f.part].max_nimber
     IN IF max_nimber.some /\ max_nimber.val < f.nimber
        THEN Return(Some(Bool(FALSE)))
        ELSE /\ stack' = SetTop([f EXCEPT !.pc = "pop"])
             /\ UNCHANGED <<ret, result>>
  /\ UNCHANGED <<cache, cancel_flag>>
  /\ UNCHANGED cancelSeen
  /\ Fixed

\* faulty variant: the deferred moves are not put back
AfterRoundDrop(e, still_unprocessed) == e

\* the entry of game once the loop of try_rule_out_nimber has ended
AfterRound(e, still_unprocessed) == append_unprocessed_moves(e, still_unprocessed)

\* faulty variant: the popped move is probed without loading cancel_flag
TryPopUnchecked ==
  /\ At("try_rule_out", "pop")
  /\ LET f == Top
         parts_opt == PopMove(cache[f.part])
     IN IF ~parts_opt.some
        THEN /\ cache' = [cache EXCEPT ![f.part] = AfterRound(@, f.still_unprocessed)]
             /\ Return(Some(Bool(f.ruled_out)))
        ELSE /\ cache' = [cache EXCEPT ![f.part] = PopRest(@)]
             /\ stack' = Push([f EXCEPT !.pc = "wait_move", !.parts = parts_opt.val],
                              Frame("by_parts", "loop", parts_opt.val, 0, f.nimber))
             /\ UNCHANGED <<ret, result>>
  /\ UNCHANGED <<cancel_flag, cancelSeen>>
  /\ Fixed

\* pop a move; none left: end the round; cancelled: return None; else probe it
TryPop ==
  /\ At("try_rule_out", "pop")
  /\ LET f == Top
         parts_opt == PopMove(cache[f.part])
     IN IF ~parts_opt.some
        THEN /\ cache' = [cache EXCEPT ![f.part] = AfterRound(@, f.still_unprocessed)]
             /\ Return(Some(Bool(f.ruled_out)))
        ELSE /\ cache' = [cache EXCEPT ![f.part] = PopRest(@)]
             /\ IF cancel_flag
                THEN Return(None)
                ELSE /\ stack' = Push([f EXCEPT !.pc = "wait_move", !.parts = parts_opt.val],
                                      Frame("by_parts", "loop", parts_opt.val, 0, f.nimber))
                     /\ UNCHANGED <<ret, result>>
  /\ UNCHANGED cancel_flag
  /\ cancelSeen' = IF PopMove(cache[Top.part]).some /\ cancel_flag THEN "observed"
                   ELSE cancelSeen
  /\ Fixed

\* the match on the probe's result
TryAfterMove ==
  /\ At("try_rule_out", "wait_move")
  /\ LET f == Top IN
       IF ret.some
       THEN LET c == [cache EXCEPT ![f.part] = mark_impossible(@, ret.val)] IN
              IF f.nimber = ret.val
              THEN /\ cache' = [c EXCEPT ![f.part] = AfterRound(@, f.still_unprocessed)]
                   /\ Return(Some(Bool(TRUE)))
              ELSE /\ cache' = c
                   /\ stack' = SetTop([f EXCEPT !.pc = "pop", !.parts = <<>>])
                   /\ ret' = None
                   /\ UNCHANGED result
       ELSE /\ stack' = SetTop([f EXCEPT !.pc = "pop", !.parts = <<>>,
                                         !.still_unprocessed = Append(@, f.parts)])
            /\ ret' = None
            /\ UNCHANGED <<cache, result>>
  /\ UNCHANGED cancel_flag
  /\ UNCHANGED cancelSeen
  /\ Fixed

(***************************************************************************)
(* The cache guards (DashMap Ref / RefMut) of the worker.  Every step of   *)
(* the worker is a straight-line piece of code; GuardScripts gives, for    *)
(* the step a frame takes at (fn, pc), the cache operations of each of its *)
(* branches in program order: "get" / "get_mut" opens a guard, "drop" ends *)
(* the guard opened last (the end of its block or of its if-let), "call"   *)
(* is the call of a solver function, "return" the return of the frame.     *)
(***************************************************************************)
\* faulty variant: try_rule_out_nimber keeps the guard of the pop over the probe
GuardScriptsHolding(fn, pc) ==
  IF fn = "try_rule_out" /\ pc = "pop"
  THEN {<<"get_mut", "call", "drop">>}
  ELSE {<<>>}

GuardScripts(fn, pc) ==
  IF fn = "by_parts" THEN
    IF pc = "loop" THEN {<<"return">>, <<"call">>}
    ELSE IF pc = "wait_part" THEN {<<"return">>, <<>>}
    ELSE {<<"return">>}
  ELSE IF fn = "of_part" THEN
    IF pc = "start"
    THEN {<<"get", "drop", "get_mut", "drop", "get", "drop", "return">>,
          <<"get", "drop", "get_mut", "drop", "get", "drop">>,
          <<"get", "drop", "get", "drop", "return">>,
          <<"get", "drop", "get", "drop">>}
    ELSE IF pc = "destub"
    THEN {<<"get_mut", "drop">>, <<"get_mut", "drop", "get_mut", "drop">>}
    ELSE IF pc = "loop"
    THEN {<<"return">>, <<"get", "drop", "return">>, <<"get", "drop", "call">>}
    ELSE {<<"return">>, <<>>, <<"get_mut", "drop", "return">>}
  ELSE
    IF pc = "start" THEN {<<"get", "drop", "return">>, <<"get", "drop">>}
    ELSE IF pc = "pop"
    THEN {<<"get_mut", "drop", "get_mut", "drop", "return">>,
          <<"get_mut", "drop", "return">>,
          <<"get_mut", "drop", "call">>}
    ELSE {<<"get_mut", "drop", "get_mut", "drop", "return">>, <<"get_mut", "drop">>, <<>>}

\* the guards alive after the first n operations of a script
GuardsHeld(script, n) ==
  Cardinality({i \in 1..n : script[i] \in {"get", "get_mut"}})
    - Cardinality({i \in 1..n : script[i] = "drop"})

Worker ==
  \/ ByPartsLoop
  \/ ByPartsAfterPart
  \/ ByPartsAfterLast
  \/ OfPartStart
  \/ OfPartDestub
  \/ OfPartLoop
  \/ OfPartAfterTry
  \/ TryStart
  \/ TryPop
  \/ TryAfterMove

Calls ==
  \/ Call_get_nimber
  \/ Call_get_bounded_nimber
  \/ Call_get_nimber_by_parts
  \/ Call_get_bounded_nimber_by_parts

Next == Calls \/ Worker \/ stop \/ resume

Spec == Init /\ [][Next]_vars

\* get_nimber calls that another thread interrupts with stop() and resumes
NextCancel == Call_get_nimber \/ Worker \/ stop \/ resume

SpecCancel == Init /\ [][NextCancel]_vars

\* the worker thread keeps stepping whatever the other thread stores to the flag
SpecCancelFair == SpecCancel /\ WF_vars(Worker)

\* the solver with the cancel flag never set
NextNoCancel == Calls \/ Worker

SpecNoCancel == Init /\ [][NextNoCancel]_vars

\* the worker is the one thread that runs the recursion: it keeps stepping
SpecNoCancelFair == SpecNoCancel /\ WF_vars(Worker)

\* sums of parts, those that start with a pair of equal parts included
NextPairs == Call_get_nimber_by_parts \/ Call_get_nimber_by_parts_paired \/ Worker

SpecPairs == Init /\ [][NextPairs]_vars

(***************************************************************************)
(* The helper functions, each run on its own on every argument of a        *)
(* bounded set.                                                            *)
(***************************************************************************)
SolverUntouched ==
  UNCHANGED <<game, hasher, cache, cancel_flag, stack, ret, api, result, cancelSeen,
              startState>>

\* the vectors of positions remove_pairs is handed
VecSeqs == UNION {[1..n -> Pos] : n \in 0..MaxVec}

InitRemovePairs ==
  /\ game = "kayles"
  /\ hasher \in Hashers
  /\ Idle
  /\ \E vec \in VecSeqs : unit = [NoUnit EXCEPT !.fn = "remove_pairs", !.vec = vec]

\* remove_pairs(&mut vec): unit.vec is the vector before the call, unit.out after it
Apply_remove_pairs ==
  /\ unit.fn = "remove_pairs" /\ ~unit.applied
  /\ unit' = [unit EXCEPT !.out = remove_pairs(hasher, unit.vec), !.applied = TRUE]
  /\ SolverUntouched

SpecRemovePairs == InitRemovePairs /\ [][Apply_remove_pairs]_vars

\* the move lists get_split_moves may return
MoveSeqs == UNION {[1..n -> Pos] : n \in 0..MaxMoveLen}

MoveLists == UNION {[1..n -> MoveSeqs] : n \in 0..MaxMoves}

InitDestub ==
  /\ game = "kayles"
  /\ hasher \in Hashers
  /\ Idle
  /\ \E moves \in MoveLists : unit = [NoUnit EXCEPT !.fn = "destub", !.moves = moves]

\* destub on a Stub whose get_split_moves returned unit.moves
Apply_destub ==
  /\ unit.fn = "destub" /\ is_stub(unit.entry)
  /\ unit' = [unit EXCEPT
                 !.entry = ProcessingDataNew(@, CanonicalMoves(hasher, unit.moves)),
                 !.applied = TRUE]
  /\ SolverUntouched

SpecDestub == InitDestub /\ [][Apply_destub]_vars

Marks == 0..MaxMark

InitMark ==
  /\ game = "kayles"
  /\ hasher = 0
  /\ Idle
  /\ unit = [NoUnit EXCEPT !.fn = "mark_impossible",
                           !.entry = ProcessingDataNew(EntryNew(None), <<>>)]

\* entry.mark_impossible(nimber) on a Processing entry
Apply_mark_impossible ==
  /\ unit.fn = "mark_impossible"
  /\ \E n \in Marks :
       unit' = [unit EXCEPT !.entry = mark_impossible(@, n), !.applied = TRUE]
  /\ SolverUntouched

SpecMark == InitMark /\ [][Apply_mark_impossible]_vars

(***************************************************************************)
(* The Grundy value, from its definition: the mex over the moves of the    *)
(* XOR of the Grundy values of the move's parts.                           *)
(***************************************************************************)
Range(s) == {s[i] : i \in 1..Len(s)}

Mex(S) == CHOOSE n \in 0..Cardinality(S) : n \notin S /\ \A k \in 0..(n - 1) : k \in S

RECURSIVE Grundy(_, _)
RECURSIVE SumGrundy(_, _)
Grundy(gm, p) == Mex({SumGrundy(gm, m) : m \in Range(get_split_moves(gm, p))})

SumGrundy(gm, parts) ==
  IF parts = <<>> THEN 0 ELSE Xor(Grundy(gm, Head(parts)), SumGrundy(gm, Tail(parts)))

\* the call made last has returned
Returned(op) == ~Running /\ api.op = op

DoneSet == {p \in DOMAIN cache : cache[p].data = "Done"}

\* Grundy, tabulated
GrundyTable == [gm \in Games, p \in Pos |-> Grundy(gm, p)]

(***************************************************************************)
(* Claims.                                                                 *)
(***************************************************************************)
C1_Value ==
  (Returned("get_nimber") /\ startState = "fresh")
     => result = Some(Grundy(game, api.parts[1]))

\* C1: on a fresh Evaluator, with the cancel flag never set, get_nimber(g)
\* terminates and returns Some(n), n the Grundy value of g (never None).
C1_FreshNimberIsGrundy == []C1_Value /\ (Running ~> ~Running)

C1_Witness ==
  /\ Returned("get_nimber") /\ startState = "fresh"
  /\ result = Some(MaxHeap) /\ api.parts = <<MaxHeap>>

\* C2: a get_nimber(g) call during which the flag is never set returns the Grundy
\* value of g (the value of a fresh, never cancelled Evaluator), whatever calls
\* were interrupted by stop() and resumed before it on the same Evaluator.
C2_ResumeMatchesFresh ==
  (Returned("get_nimber") /\ cancelSeen = "clear")
     => result = Some(Grundy(game, api.parts[1]))

\* C3: while the flag stays set, no entry becomes Done; stated for the steps
\* after the worker has loaded the set flag, the steps in which the in-flight
\* calls propagate None upward.
C3_NoDoneWhileCancelled ==
  [][(cancel_flag /\ cancel_flag' /\ cancelSeen = "observed") => DoneSet' = DoneSet]_vars

\* every move destub stored for p is pending or has its nimber recorded
Retained(p) ==
  \A m \in Range(DestubTable[game, hasher, p]) :
     \/ m \in Range(cache[p].unprocessed_split_moves)
     \/ SumGrundy(game, m) \in Range(cache[p].impossible_nimbers)

\* C4: when a call has returned None because of cancellation, every Processing
\* entry has kept all its work: each of its move alternatives is in
\* pending_moves or has its nimber in impossible_nimbers.
C4_NoMoveLost ==
  (~Running /\ api.op # "none" /\ cancelSeen = "observed" /\ ~result.some)
     => \A p \in DOMAIN cache : cache[p].data = "Processing" => Retained(p)

\* C5: get_bounded_nimber(g, b) = Some(n) implies n <= b and n is the Grundy
\* value of g, in any cache state earlier calls leave.
C5_BoundedSome ==
  (Returned("get_bounded_nimber") /\ result.some)
     => (result.val <= api.bound /\ result.val = Grundy(game, api.parts[1]))

\* C6: with the flag never set, get_bounded_nimber(g, b) = None implies that the
\* Grundy value of g is greater than b.
C6_BoundedNone ==
  (Returned("get_bounded_nimber") /\ ~result.some)
     => Grundy(game, api.parts[1]) > api.bound

C6_Witness ==
  /\ Returned("get_bounded_nimber") /\ ~result.some
  /\ api.bound >= 1 /\ startState = "Processing"

\* C7: with the flag never set, get_bounded_nimber_by_parts(parts, bound)
\* returns None only when the XOR of the parts' Grundy values exceeds bound, and
\* Some of that XOR whenever it is <= bound.
C7_NoFalseEarlyExit ==
  Returned("get_bounded_nimber_by_parts")
     => LET x == SumGrundy(game, api.parts)
        IN /\ ~result.some => x > api.bound
           /\ x <= api.bound => result = Some(x)

\* C8: with the flag never set, get_nimber_by_parts(parts) returns Some of the
\* XOR of the parts' Grundy values, Some(0) for no parts.
C8_SumXor ==
  Returned("get_nimber_by_parts") => result = Some(SumGrundy(game, api.parts))

C8_Witness ==
  /\ Returned("get_nimber_by_parts") /\ Len(api.parts) = 2
  /\ api.parts[1] # api.parts[2]
  /\ Grundy(game, api.parts[1]) >= 2 /\ Grundy(game, api.parts[2]) >= 2
  /\ result = Some(1)

\* C9: with the flag never set, get_nimber(g) on a cache warmed by earlier calls,
\* bounded calls that left entries in Processing included, returns the Grundy
\* value of g, the value a fresh Evaluator returns.
C9_WarmNimberIsGrundy ==
  (Returned("get_nimber") /\ startState # "fresh")
     => result = Some(Grundy(game, api.parts[1]))

C9_Witness ==
  /\ Returned("get_nimber") /\ startState = "Processing"
  /\ result.some /\ result.val >= 2

Rank(e) == IF e.data = "Stub" THEN 0 ELSE IF e.data = "Processing" THEN 1 ELSE 2

\* C10: an entry stays in the cache and only moves Stub -> Processing -> Done, one
\* variant at a time and never backwards; a Done entry never changes again.
C10_LifecycleMonotone ==
  [][\A p \in DOMAIN cache :
       /\ p \in DOMAIN cache'
       /\ Rank(cache'[p]) >= Rank(cache[p])
       /\ Rank(cache'[p]) <= Rank(cache[p]) + 1
       /\ cache[p].data = "Done" => cache'[p] = cache[p]]_vars

C10_Witness ==
  /\ cancel_flag
  /\ \E p, q, r \in DOMAIN cache :
        cache[p].data = "Done" /\ cache[q].data = "Processing" /\ cache[r].data = "Stub"

\* the first terms of OEIS A002186 as tests.rs tabulates them, for heaps 0..11
A002186 == <<0, 1, 2, 3, 1, 4, 3, 2, 1, 4, 2, 6>>

\* C11: for the Kayles of kayles.rs, get_nimber(Kayles{n}) is the n-th term of
\* OEIS A002186; heaps 0, 1, 2, 3 give 0, 1, 2, 3.
C11_KaylesOEIS ==
  (Returned("get_nimber") /\ game = "kayles" /\ startState = "fresh")
     => result = Some(A002186[api.parts[1] + 1])

\* a step of the worker in which try_rule_out_nimber starts the probe of a move
ProbeStarts ==
  /\ Running
  /\ Len(stack') = Len(stack) + 1
  /\ stack'[Len(stack')].fn = "by_parts"

\* C12: once the flag is set during a call and stays set, no try_rule_out round
\* starts probing a further pending move, and the call eventually returns.
C12_StopTerminates ==
  /\ [][cancel_flag => ~ProbeStarts]_vars
  /\ ((Running /\ cancel_flag) ~> (~Running \/ ~cancel_flag))

C12_Witness ==
  /\ ~Running /\ cancel_flag /\ cancelSeen = "observed"
  /\ api.parts = <<MaxHeap>> /\ result = None
  /\ \E p \in DOMAIN cache : cache[p].data = "Processing"

\* the call made last was get_nimber_by_parts([a, a] ++ rest)
PairedCall ==
  /\ Returned("get_nimber_by_parts")
  /\ Len(api.parts) >= 2 /\ api.parts[1] = api.parts[2]

\* C13: with the flag never set, get_nimber_by_parts([a, a] ++ rest) returns what
\* get_nimber_by_parts(rest) returns, Some of the XOR of the Grundy values of rest.
C13_PairCancels ==
  PairedCall => result = Some(SumGrundy(game, SubSeq(api.parts, 3, Len(api.parts))))

C13_Witness ==
  /\ PairedCall /\ Len(api.parts) = 4
  /\ Grundy(game, api.parts[1]) >= 2
  /\ api.parts[3] # api.parts[4] /\ api.parts[3] # api.parts[1]
  /\ result.some /\ result.val >= 1

\* C14: in every reachable state, stop/resume included, no value in the
\* impossible_nimbers of a Processing entry is the Grundy value of its position,
\* so smallest_possible_nimber never exceeds that Grundy value.
C14_ImpossibleExcludesGrundy ==
  \A p \in DOMAIN cache :
     cache[p].data = "Processing"
        => /\ GrundyTable[game, p] \notin Range(cache[p].impossible_nimbers)
           /\ SmallestPossible(cache[p].impossible_nimbers) <= GrundyTable[game, p]

\* the Processing entry of p in cache c accounts for every move destub stored:
\* it is pending, once, or its nimber is in impossible_nimbers
Conserved(c, p) ==
  c[p].data = "Processing" =>
    LET pending == c[p].unprocessed_split_moves
    IN /\ \A m \in Range(DestubTable[game, hasher, p]) :
             \/ m \in Range(pending)
             \/ SumGrundy(game, m) \in Range(c[p].impossible_nimbers)
       /\ Range(pending) \subseteq Range(DestubTable[game, hasher, p])
       /\ \A i, j \in 1..Len(pending) : i # j => pending[i] # pending[j]

\* the step in which a try_rule_out_nimber round returns Some(_)
RoundReturns ==
  /\ Running /\ Top.fn = "try_rule_out"
  /\ Len(stack') = Len(stack) - 1
  /\ ret'.some

\* C15: with the flag never set, a try_rule_out round conserves the moves: when
\* it returns Some(_), the alternatives whose probe returned None are back in
\* pending_moves, nothing else was added to it, and every alternative no longer
\* pending has its nimber in impossible_nimbers.
C15_RoundConservesMoves ==
  [][RoundReturns =>
       /\ cache'[Top.part].unprocessed_split_moves =
             cache[Top.part].unprocessed_split_moves \o Top.still_unprocessed
       /\ Conserved(cache', Top.part)]_vars

C15_Witness ==
  /\ ~Running /\ ~cancel_flag
  /\ \E p \in DOMAIN cache :
        /\ cache[p].data = "Processing"
        /\ Len(cache[p].unprocessed_split_moves) >= 2
        /\ Len(cache[p].impossible_nimbers) >= 2

\* how often x occurs in s
Count(s, x) == Cardinality({i \in 1..Len(s) : s[i] = x})

\* C16: after destub, pending_moves is canonical: no position occurs twice in an
\* alternative, no two alternatives are equal, and impossible_nimbers is empty.
C16_DestubCanonical ==
  (unit.fn = "destub" /\ unit.applied) =>
    LET pending == unit.entry.unprocessed_split_moves
    IN /\ unit.entry.data = "Processing"
       /\ unit.entry.impossible_nimbers = <<>>
       /\ \A i \in 1..Len(pending) : \A x \in Pos : Count(pending[i], x) <= 1
       /\ \A i, j \in 1..Len(pending) : i # j => pending[i] # pending[j]

\* C17: remove_pairs keeps each position (count mod 2) times: once if it occurred
\* an odd number of times, not at all if even, and nothing else.
C17_RemovePairsParity ==
  (unit.fn = "remove_pairs" /\ unit.applied) =>
     /\ \A x \in Pos : Count(unit.out, x) = Count(unit.vec, x) % 2
     /\ Range(unit.out) \subseteq Range(unit.vec)

C17_Witness ==
  /\ unit.fn = "remove_pairs" /\ unit.applied
  /\ Len(unit.vec) = MaxVec /\ Len(unit.out) = 1
  /\ unit.vec[1] # unit.vec[2] /\ unit.vec[1] = unit.vec[3]

\* C18: smallest_possible_nimber of a Processing entry is the mex of
\* impossible_nimbers, a sorted set without repetitions, for every set
\* mark_impossible builds; mark_impossible is idempotent.
C18_SmallestIsMex ==
  unit.fn = "mark_impossible" =>
    LET e == unit.entry
        imp == e.impossible_nimbers
    IN /\ \A i \in 1..(Len(imp) - 1) : imp[i] < imp[i + 1]
       /\ get_smallest_possible_nimber(e) = Some(Mex(Range(imp)))
       /\ \A n \in Marks :
             /\ n \in Range(mark_impossible(e, n).impossible_nimbers)
             /\ mark_impossible(mark_impossible(e, n), n) = mark_impossible(e, n)

C18_Witness ==
  /\ unit.fn = "mark_impossible" /\ unit.applied
  /\ unit.entry.impossible_nimbers = <<0, 1, 3, 4>>

\* a guard is opened, and a solver function called, only with no guard alive,
\* and no guard outlives the step
ReleasedBeforeRecurse(script) ==
  /\ \A i \in 1..Len(script) :
        script[i] \in {"get", "get_mut", "call"} => GuardsHeld(script, i - 1) = 0
  /\ GuardsHeld(script, Len(script)) = 0

AboveMax(f) ==
  /\ cache[f.part].max_nimber.some
  /\ cache[f.part].max_nimber.val < f.nimber

RECURSIVE SumTable(_)
SumTable(parts) ==
  IF parts = <<>> THEN 0 ELSE Xor(GrundyTable[game, Head(parts)], SumTable(Tail(parts)))

\* C21: with the cancel flag never set, a sum whose nimber equals the bound
\* exactly is solved.  At the entry point: a returned
\* get_bounded_nimber_by_parts(parts, bound) with nimber(parts) = bound has
\* the result Some(bound).  Inside try_rule_out_nimber: when the probe of the
\* popped move has returned and the nimber of the move is the candidate, the
\* probe's value is Some(candidate), so the move is not pushed onto the
\* deferred list.
C21_ExactBoundIsFound ==
  /\ (Returned("get_bounded_nimber_by_parts") /\ SumTable(api.parts) = api.bound)
       => result = Some(api.bound)
  /\ (At("try_rule_out", "wait_move") /\ SumTable(Top.parts) = Top.nimber)
       => ret = Some(Top.nimber)

\* a sum of two parts was solved on a fresh Evaluator to exactly its bound,
\* the nimber of the last part being above the bound and within
\* bound | modifier
C21_Witness ==
  /\ Returned("get_bounded_nimber_by_parts") /\ startState = "fresh"
  /\ Len(api.parts) = 2
  /\ result = Some(api.bound)
  /\ SumTable(api.parts) = api.bound
  /\ GrundyTable[game, api.parts[2]] > api.bound

====
